---- MODULE Spec2Model ----
(***************************************************************************)
(* A model of the example programs of RF24Revamped:                        *)
(*   "ack"  examples_linux/acknowledgementPayloads.cpp                     *)
(*   "gs"   examples_linux/gettingstarted (second half of part_000)        *)
(*   "man"  examples/ManualAcknowledgements (first half of part_000)       *)
(* One node runs one of the programs.  The radio driver and the other node *)
(* are the environment: what write(), available() and read() report is an  *)
(* input of the step that calls them.                                      *)
(***************************************************************************)
EXTENDS Integers, Sequences, FiniteSets, TLC

VARIABLES
    prog,          \* which example this node runs: "ack", "gs" or "man"
    pc,            \* where the program is (the point at which it blocks)
    caller,        \* who called master()/slave(): "main" or "setRole"
    exitCode,      \* "none" while running, "0" after return/exit(0), "SIGINT" when killed
    radio,         \* the driver object: power, mode, pipes, features
    ops,           \* history: the radio operations called after begin()
    handler,       \* whether sigaction() has installed programInterruptHandler
    foundArgNode,  \* main's locals
    foundArgRole,
    role,          \* main's local `role` ("ack"); the global `role` ("man")
    radioNumber,
    cli,           \* history: what the command line asked for
    shown,         \* history: the kinds of text printed so far
    out,           \* history: the kind of the last text printed
    input,         \* setRole's local `input`, as a sequence of character codes
    typed,         \* history: the line the last getline() returned
    payload,       \* the global PayloadStruct payload: message, counter
    payloadF,      \* the global float payload of "gs", in hundredths
    failures,      \* master's local failure counter
    txLog,         \* history: what master's last write() sent and reported
    streak,        \* history: failed transmissions in a row, up to now
    now,           \* wall clock in ticks, counted from the start of a second
    startTimer,    \* slave's local time_t startTimer (whole seconds)
    quietSince,    \* history: the tick at which the current silence began
    rxFifo,        \* the radio's RX FIFO: payloads received, not yet read
    ackFifo,       \* the radio's TX FIFO: ACK payloads loaded, not yet sent
    nRx,           \* history: how many transmissions this node's radio received
    entryCounter,  \* history: the counter of the payload slave() was entered with
    rxHist,        \* history: the counters of those transmissions, in order
    lastAck,       \* history: the ACK the radio sent for the latest of them
    payloadFrom,   \* history: the received transmission payload.counter is derived from
    exchange,      \* history of "man": what the last pass of loop() read and answered
    clock,         \* CLOCK_MONOTONIC_RAW: [sec, nsec]
    startTs,       \* the global timespec startTimer
    endTs,         \* the global timespec endTimer
    elapsed        \* what getMicros() returned for the timer started last, <<>> before

progVars  == <<prog, pc, caller, exitCode, handler>>
argVars   == <<foundArgNode, foundArgRole, role, radioNumber, cli>>
ioVars    == <<shown, out, input, typed>>
radioVars == <<radio, ops>>
dataVars  == <<payload, payloadF>>
txVars    == <<failures, txLog, streak>>
timeVars  == <<now, startTimer, quietSince>>
fifoVars  == <<rxFifo, ackFifo, nRx, rxHist, entryCounter, lastAck, payloadFrom,
               exchange>>
microVars == <<clock, startTs, endTs, elapsed>>
vars == <<progVars, argVars, ioVars, radioVars, dataVars, txVars, timeVars,
          fifoVars, microVars>>

(***************************************************************************)
(* Bounds of the model.                                                    *)
(***************************************************************************)
MaxArgs == 4        \* arguments after the program name
MaxLineLen == 2     \* characters of a line read from stdin or the serial line
TicksPerSec == 2    \* resolution of the wall clock
MaxSecs == 7        \* seconds of wall clock a stay in slave() is followed for
MaxPackets == 3     \* transmissions the radio receives in a run
MaxFloat == 2       \* increments of the float payload of "gs" that are followed
MaxResponse == 3     \* the largest counter of a response to "man" that is followed
MaxClockSecs == 2   \* seconds of CLOCK_MONOTONIC_RAW that are followed

MaxTick == MaxSecs * TicksPerSec

\* the counters a received payload may carry (uint8_t): 255 wraps around
Counters == {0, 255}

(***************************************************************************)
(* Text: a string is the sequence of its character codes.                  *)
(***************************************************************************)
ArgN    == <<45, 110>>                          \* "-n"
ArgNode == <<45, 45, 110, 111, 100, 101>>       \* "--node"
ArgR    == <<45, 114>>                          \* "-r"
ArgRole == <<45, 45, 114, 111, 108, 101>>       \* "--role"

\* The words a command line is made of here: the four flags, "-x", and the
\* values "0", "1", "2", "/", "10" and "".
Words == {ArgN, ArgNode, ArgR, ArgRole, <<45, 120>>,
          <<48>>, <<49>>, <<50>>, <<47>>, <<49, 48>>, <<>>}

SeqsUpTo(S, n) == UNION {[1..k -> S] : k \in 0..n}

Argvs == SeqsUpTo(Words, MaxArgs)

\* The keys a line of stdin is made of: T t R r Q q X 0 1
Keys == {84, 116, 82, 114, 81, 113, 88, 48, 49}

\* a line of stdin: any key first, and 'Q' for every further character
Lines == {l \in SeqsUpTo(Keys, MaxLineLen) : \A i \in 2..Len(l) : l[i] = 81}

\* s[0] of a C string: the terminating NUL when the string is empty.
FirstChar(s) == IF Len(s) = 0 THEN 0 ELSE s[1]

(***************************************************************************)
(* The radio driver (RF24), as the examples use it.                        *)
(***************************************************************************)
NoPipe == "none"

RadioOff ==
    [powered |-> FALSE, listening |-> FALSE, txPipe |-> NoPipe,
     rxPipe0 |-> NoPipe, rxPipe1 |-> NoPipe, dynPl |-> FALSE,
     ackPl |-> FALSE, paLow |-> FALSE]

RadioBegin(r) == [r EXCEPT !.powered = TRUE]
RadioPowerDown(r) == [r EXCEPT !.powered = FALSE]
StartListening(r) == [r EXCEPT !.powered = TRUE, !.listening = TRUE]
StopListening(r) == [r EXCEPT !.listening = FALSE]
OpenWritingPipe(r, addr) == [r EXCEPT !.txPipe = addr]
OpenReadingPipe(r, n, addr) ==
    IF n = 0 THEN [r EXCEPT !.rxPipe0 = addr] ELSE [r EXCEPT !.rxPipe1 = addr]

\* uint8_t address[2][6] = {"1Node", "2Node"}, indexed by a bool
Address(b) == IF b THEN "2Node" ELSE "1Node"

(***************************************************************************)
(* main() of "ack": the command line.                                      *)
(***************************************************************************)
ArgState0 ==
    [foundArgNode |-> FALSE, foundArgRole |-> FALSE, radioNumber |-> TRUE,
     role |-> FALSE, help |-> FALSE]

\* argv[a + 1][0] - 48 <= 1, in int arithmetic
OptionOk(c) == c - 48 <= 1

\* the while (a < argc) loop; av[a] is argv[a]
RECURSIVE ParseLoop(_, _, _)
ParseLoop(av, a, st) ==
    IF a > Len(av) THEN st
    ELSE LET c == FirstChar(av[a + 1])
             isNode == av[a] \in {ArgN, ArgNode}
             isRole == ~isNode /\ av[a] \in {ArgR, ArgRole}
             st1 == IF isNode
                    THEN [st EXCEPT !.foundArgNode = TRUE,
                                    !.radioNumber = IF OptionOk(c) THEN c - 48 = 1 ELSE @]
                    ELSE IF isRole
                    THEN [st EXCEPT !.foundArgRole = TRUE,
                                    !.role = IF OptionOk(c) THEN c - 48 = 1 ELSE @]
                    ELSE st
             invalidOption == (isNode \/ isRole) /\ ~OptionOk(c)
         IN  IF invalidOption THEN [st1 EXCEPT !.help = TRUE]
             ELSE ParseLoop(av, a + 2, st1)

\* lines 74-123: the locals after the parse; help = printHelp() and return 0
ParseArgs(av) ==
    IF Len(av) = 0 THEN ArgState0
    ELSE IF Len(av) % 2 # 0 THEN [ArgState0 EXCEPT !.help = TRUE]
    ELSE LET st == ParseLoop(av, 1, ArgState0)
         IN  IF ~st.help /\ ~st.foundArgNode /\ ~st.foundArgRole
             THEN [st EXCEPT !.help = TRUE]
             ELSE st

(***************************************************************************)
(* History of the command line, in the words of the usage text             *)
(* "[-n {0,1}] [-r {0,1}]": not read by the program.                       *)
(***************************************************************************)
Flags == {ArgN, ArgNode, ArgR, ArgRole}

Malformed(av) ==
    \/ Len(av) % 2 # 0
    \/ \E i \in 1..Len(av) : i % 2 = 1 /\ av[i] \notin Flags
    \/ \E i \in 1..Len(av) : i % 2 = 0 /\ FirstChar(av[i]) \notin {48, 49}

\* the first character given with the last of `flags`, -1 when none is given
Given(av, flags) ==
    LET at == {i \in 1..Len(av) : i % 2 = 1 /\ i < Len(av) /\ av[i] \in flags}
    IN  IF at = {} THEN -1
        ELSE LET i == CHOOSE j \in at : \A k \in at : k <= j
             IN  FirstChar(av[i + 1])

Classify(av) ==
    [args |-> Len(av) > 0, malformed |-> Malformed(av),
     node |-> Given(av, {ArgN, ArgNode}), role |-> Given(av, {ArgR, ArgRole})]

NoCli == [args |-> FALSE, malformed |-> FALSE, node |-> -1, role |-> -1]

(***************************************************************************)
(* Output.  `shown` keeps the texts of main() and the role menu; `out` is  *)
(* what the last step printed, in order.                                   *)
(***************************************************************************)
Sticky == {"hwfail", "help", "name", "askNode", "menu"}

Say(kinds) ==
    /\ shown' = shown \cup ({kinds[i] : i \in 1..Len(kinds)} \cap Sticky)
    /\ out' = kinds

Linux == {"ack", "gs"}

NoTx == [sent |-> -1, ok |-> FALSE]
NoAck == [n |-> 0, has |-> FALSE, counter |-> 0, from |-> 0]
NoExchange == [kind |-> "none", n |-> 0, got |-> 0, counter |-> 0]

InitProgram ==
    /\ pc = "start"
    /\ caller = "main"
    /\ exitCode = "none"
    /\ radio = RadioOff
    /\ ops = {}
    /\ handler = FALSE
    /\ foundArgNode = FALSE
    /\ foundArgRole = FALSE
    /\ role = FALSE
    /\ radioNumber = TRUE
    /\ cli = NoCli
    /\ shown = {}
    /\ out = <<>>
    /\ input = <<>>
    /\ typed = <<>>
    /\ payload = [message |-> "", counter |-> 0]
    /\ payloadF = 0
    /\ failures = 0
    /\ txLog = NoTx
    /\ streak = 0
    /\ now = 0
    /\ startTimer = 0
    /\ quietSince = 0
    /\ rxFifo = <<>>
    /\ ackFifo = <<>>
    /\ nRx = 0
    /\ rxHist = <<>>
    /\ entryCounter = 0
    /\ lastAck = NoAck
    /\ payloadFrom = 0
    /\ exchange = NoExchange

InitMicros ==
    /\ clock = [sec |-> 0, nsec |-> 0]
    /\ startTs = [sec |-> 0, nsec |-> 0]
    /\ endTs = [sec |-> 0, nsec |-> 0]
    /\ elapsed = <<>>

Init ==
    /\ prog \in {"ack", "gs", "man"}
    /\ InitProgram
    /\ InitMicros

(***************************************************************************)
(* main() of the Linux examples, cut where it blocks.                      *)
(***************************************************************************)
\* return 0 from main()
ExitMain ==
    /\ pc' = "exited"
    /\ exitCode' = "0"

\* a variant without the return: the message is printed and main() goes on
MainBeginGoesOn ==
    /\ prog \in Linux
    /\ pc = "start"
    /\ \E hwOk \in BOOLEAN :
         /\ radio' = IF hwOk THEN RadioBegin(radio) ELSE radio
         /\ IF hwOk THEN UNCHANGED <<shown, out>> ELSE Say(<<"hwfail">>)
    /\ pc' = IF prog = "ack" THEN "args" ELSE "config"
    /\ UNCHANGED <<prog, caller, exitCode, handler, ops, input, typed, argVars,
                   dataVars, txVars, timeVars, fifoVars, microVars>>

\* "ack" 60-63, "gs" 260-263: the hardware check
MainBegin ==
    /\ prog \in Linux
    /\ pc = "start"
    /\ \E hwOk \in BOOLEAN :
         IF hwOk
         THEN /\ radio' = RadioBegin(radio)
              /\ pc' = IF prog = "ack" THEN "args" ELSE "config"
              /\ UNCHANGED <<exitCode, shown, out>>
         ELSE /\ Say(<<"hwfail">>)
              /\ ExitMain
              /\ UNCHANGED radio
    /\ UNCHANGED <<prog, caller, handler, ops, input, typed, argVars, dataVars, txVars,
                   timeVars, fifoVars, microVars>>

\* "ack" 74-131: the command line av, up to the radio-number prompt
MainArgsOn(av) ==
    LET st == ParseArgs(av) IN
    /\ foundArgNode' = st.foundArgNode
    /\ foundArgRole' = st.foundArgRole
    /\ radioNumber' = st.radioNumber
    /\ role' = st.role
    /\ IF st.help
       THEN Say(<<"help">>) /\ ExitMain
       ELSE /\ UNCHANGED exitCode
            /\ IF st.foundArgNode
               THEN Say(<<"name">>) /\ pc' = "config"
               ELSE Say(<<"name", "askNode">>) /\ pc' = "askNode"
    /\ UNCHANGED <<prog, caller, handler, input, typed, radioVars, dataVars, txVars,
                   timeVars, fifoVars, microVars>>

MainArgs ==
    /\ prog = "ack"
    /\ pc = "args"
    /\ \E av \in Argvs : MainArgsOn(av)
    /\ UNCHANGED cli

\* the same step, with the history of the command line kept
MainArgsCli ==
    /\ prog = "ack"
    /\ pc = "args"
    /\ \E av \in Argvs : MainArgsOn(av) /\ cli' = Classify(av)

\* "ack" 132-133: getline() returns the answer to the prompt
MainAskNode ==
    /\ prog = "ack"
    /\ pc = "askNode"
    /\ \E line \in Lines :
         /\ radioNumber' = (Len(line) > 0 /\ line[1] = 49)
         /\ typed' = line
    /\ pc' = "config"
    /\ UNCHANGED <<prog, caller, exitCode, handler, foundArgNode, foundArgRole,
                   role, cli, shown, out, input, radioVars, dataVars, txVars,
                   timeVars, fifoVars, microVars>>

\* the menu text of setRole(), printed before it blocks in getline()
EnterMenu(kinds) ==
    /\ pc' = "menu"
    /\ input' = <<>>
    /\ shown' = shown \cup ({kinds[i] : i \in 1..Len(kinds)} \cap Sticky) \cup {"menu"}
    /\ out' = kinds \o <<"menu">>

\* a variant that opens the reading pipe on the node's own address
ConfigAckOwnAddress(r, number) ==
    OpenReadingPipe(
      OpenWritingPipe([r EXCEPT !.dynPl = TRUE, !.ackPl = TRUE, !.paLow = TRUE],
                      Address(number)),
      1, Address(number))

\* "ack" 137-152
ConfigAck(r, number) ==
    OpenReadingPipe(
      OpenWritingPipe([r EXCEPT !.dynPl = TRUE, !.ackPl = TRUE, !.paLow = TRUE],
                      Address(number)),
      1, Address(~number))

\* "gs" 271-276
ConfigGs(r) ==
    OpenReadingPipe(OpenWritingPipe([r EXCEPT !.paLow = TRUE], "1Node"), 0, "1Node")

ConfigOps(p) ==
    IF p = "ack"
    THEN {"enableDynamicPayloads", "enableAckPayload", "setPALevel",
          "openWritingPipe", "openReadingPipe"}
    ELSE {"setPALevel", "openWritingPipe", "openReadingPipe"}

\* "ack" 137-152, "gs" 266-283: the radio is configured
MainConfig ==
    /\ prog \in Linux
    /\ pc = "config"
    /\ IF prog = "ack"
       THEN /\ radio' = ConfigAck(radio, radioNumber)
            /\ ops' = ops \cup ConfigOps(prog)
            /\ pc' = "sigaction"
            /\ UNCHANGED <<caller, ioVars>>
       ELSE /\ radio' = ConfigGs(radio)
            /\ ops' = ops \cup ConfigOps(prog)
            /\ caller' = "setRole"
            /\ EnterMenu(<<"name">>)
            /\ UNCHANGED typed
    /\ UNCHANGED <<prog, exitCode, handler, argVars, dataVars, txVars, timeVars,
                   fifoVars, microVars>>

\* "ack" 159-163: sigaction(SIGINT, ...)
MainSigaction ==
    /\ prog = "ack"
    /\ pc = "sigaction"
    /\ handler' = TRUE
    /\ pc' = "dispatch"
    /\ UNCHANGED <<prog, caller, exitCode, argVars, ioVars, radioVars, dataVars,
                   txVars, timeVars, fifoVars, microVars>>

\* a variant with the two roles of the -r flag exchanged
MainDispatchExchanged ==
    /\ prog = "ack"
    /\ pc = "dispatch"
    /\ IF ~foundArgRole
       THEN caller' = "setRole" /\ EnterMenu(<<>>) /\ UNCHANGED typed
       ELSE /\ caller' = "main"
            /\ pc' = IF role THEN "callSlave" ELSE "callMaster"
            /\ UNCHANGED ioVars
    /\ UNCHANGED <<prog, exitCode, handler, argVars, radioVars, dataVars, txVars,
                   timeVars, fifoVars, microVars>>

\* "ack" 166-171: the role of the -r flag, or the role menu
MainDispatch ==
    /\ prog = "ack"
    /\ pc = "dispatch"
    /\ IF ~foundArgRole
       THEN caller' = "setRole" /\ EnterMenu(<<>>) /\ UNCHANGED typed
       ELSE /\ caller' = "main"
            /\ pc' = IF role THEN "callMaster" ELSE "callSlave"
            /\ UNCHANGED ioVars
    /\ UNCHANGED <<prog, exitCode, handler, argVars, radioVars, dataVars, txVars,
                   timeVars, fifoVars, microVars>>

(***************************************************************************)
(* setRole(): one line of the role menu.                                   *)
(***************************************************************************)
\* a variant that knows the capital letters only
RoleOfCapitals(line) ==
    IF Len(line) >= 1
    THEN IF line[1] = 84 THEN "master"
         ELSE IF line[1] = 82 THEN "slave"
         ELSE IF line[1] = 81 THEN "quit"
         ELSE "invalid"
    ELSE "again"

\* what setRole() does with a line: "master", "slave", "quit", "invalid", "again"
RoleOf(line) ==
    IF Len(line) >= 1
    THEN IF line[1] = 84 \/ line[1] = 116 THEN "master"
         ELSE IF line[1] = 82 \/ line[1] = 114 THEN "slave"
         ELSE IF line[1] = 81 \/ line[1] = 113 THEN "quit"
         ELSE "invalid"
    ELSE "again"

\* "ack" 186-197, "gs" 297-308
SetRole ==
    /\ prog \in Linux
    /\ pc = "menu"
    /\ \E line \in Lines :
         LET what == RoleOf(line) IN
         /\ typed' = line
         /\ CASE what = "master" ->
                   /\ input' = line
                   /\ pc' = "callMaster"
                   /\ UNCHANGED <<exitCode, shown, out>>
              [] what = "slave" ->
                   /\ input' = line
                   /\ pc' = "callSlave"
                   /\ UNCHANGED <<exitCode, shown, out>>
              [] what = "quit" ->
                   /\ input' = line
                   /\ ExitMain
                   /\ UNCHANGED <<shown, out>>
              [] what = "invalid" ->
                   /\ EnterMenu(<<"invalid">>)
                   /\ UNCHANGED exitCode
              [] OTHER ->
                   /\ EnterMenu(<<>>)
                   /\ UNCHANGED exitCode
    /\ UNCHANGED <<prog, caller, handler, argVars, radioVars, dataVars, txVars,
                   timeVars, fifoVars, microVars>>

\* master() or slave() returns: to the menu of setRole(), or to main()'s return 0
Return(kinds) ==
    IF caller = "setRole"
    THEN EnterMenu(kinds) /\ UNCHANGED exitCode
    ELSE Say(kinds) /\ ExitMain /\ UNCHANGED input

(***************************************************************************)
(* SIGINT.  "ack" 306-310 once the handler is installed; before that, and  *)
(* in "gs", the default disposition ends the process.                      *)
(***************************************************************************)
Interrupt ==
    /\ prog \in Linux
    /\ pc # "exited"
    /\ pc' = "exited"
    /\ IF handler
       THEN /\ Say(<<"interrupt">>)
            /\ radio' = RadioPowerDown(radio)
            /\ ops' = ops \cup {"powerDown"}
            /\ exitCode' = "0"
       ELSE /\ exitCode' = "SIGINT"
            /\ UNCHANGED <<shown, out, radioVars>>
    /\ UNCHANGED <<prog, caller, handler, input, typed, argVars, dataVars, txVars,
                   timeVars, fifoVars, microVars>>

(***************************************************************************)
(* The radio's FIFOs.  A received payload waits in the RX FIFO until       *)
(* read(); an ACK payload waits in the TX FIFO until the radio sends it    *)
(* with the ACK of the next transmission it receives.                      *)
(***************************************************************************)
FifoDepth == 3

Push(fifo, x) == IF Len(fifo) < FifoDepth THEN Append(fifo, x) ELSE fifo

\* the other node's transmission reaches this radio while it listens
PacketArrives ==
    /\ radio.powered /\ radio.listening
    /\ pc \in {"slave", "loop"}
    /\ nRx < MaxPackets
    /\ Len(rxFifo) < FifoDepth
    /\ \E c \in Counters :
         /\ rxFifo' = Append(rxFifo, [counter |-> c, n |-> nRx + 1])
         /\ rxHist' = Append(rxHist, c)
    /\ UNCHANGED entryCounter
    /\ nRx' = nRx + 1
    /\ IF ackFifo # <<>>
       THEN /\ lastAck' = [n |-> nRx + 1, has |-> TRUE,
                           counter |-> Head(ackFifo).counter, from |-> Head(ackFifo).from]
            /\ ackFifo' = Tail(ackFifo)
       ELSE /\ lastAck' = [NoAck EXCEPT !.n = nRx + 1]
            /\ UNCHANGED ackFifo
    /\ UNCHANGED <<progVars, argVars, ioVars, radioVars, dataVars, txVars,
                   timeVars, payloadFrom, exchange, microVars>>

(***************************************************************************)
(* master(): the TX role of the Linux examples.                            *)
(***************************************************************************)
MaxFailures == 6

\* "ack" 206-209, "gs" 317-322
MasterEnter ==
    /\ prog \in Linux
    /\ pc = "callMaster"
    /\ payload' = IF prog = "ack" THEN [payload EXCEPT !.message = "Hello "] ELSE payload
    /\ radio' = StopListening(radio)
    /\ ops' = ops \cup {"stopListening"}
    /\ ackFifo' = <<>>
    /\ failures' = 0
    /\ streak' = 0
    /\ txLog' = NoTx
    /\ pc' = "master"
    /\ UNCHANGED <<prog, caller, exitCode, handler, argVars, ioVars, payloadF,
                   timeVars, rxFifo, nRx, rxHist, entryCounter, lastAck, payloadFrom,
                   exchange, microVars>>

\* a variant that forgets the increment
NextCounterSame(c) == c

\* "ack" 232, 277: the counter for the next outgoing payload (uint8_t)
NextCounter(c) == (c + 1) % 256

\* a variant that counts failures in a row: a success starts the count again
CountFailureInARow(n, report) == IF report THEN 0 ELSE n + 1

\* "ack" 215, 238-241; "gs" 328, 335-339: the failure count after a write()
CountFailure(n, report) == IF report THEN n ELSE n + 1

\* "ack" 215-241: what a reported write() does to the payload and the count
MasterReport(report, fifo) ==
    /\ failures' = CountFailure(failures, report)
    /\ IF report /\ fifo # <<>>
       THEN /\ payload' = [payload EXCEPT !.counter = NextCounter(Head(fifo).counter)]
            /\ rxFifo' = Tail(fifo)
       ELSE /\ payload' = payload
            /\ rxFifo' = fifo

\* "ack" 210-245: one transmission.  ack is the ACK payload that came with
\* the ACK packet, if any
MasterIterAck ==
    /\ prog = "ack"
    /\ pc = "master"
    /\ failures < MaxFailures
    /\ \E report \in BOOLEAN, hasAck \in BOOLEAN, c \in Counters :
         /\ MasterReport(report,
                         IF report /\ hasAck
                         THEN Push(rxFifo, [counter |-> c, n |-> 0]) ELSE rxFifo)
         /\ txLog' = [sent |-> payload.counter, ok |-> report]
         /\ streak' = IF report THEN 0 ELSE streak + 1
    /\ ops' = ops \cup {"write"}
    /\ payloadFrom' = 0
    /\ UNCHANGED <<progVars, argVars, ioVars, radio, payloadF, timeVars, ackFifo,
                   nRx, rxHist, entryCounter, lastAck, exchange, microVars>>

\* "gs" 323-343: one transmission
MasterIterGs ==
    /\ prog = "gs"
    /\ pc = "master"
    /\ failures < MaxFailures
    /\ \E report \in BOOLEAN :
         /\ report => payloadF < MaxFloat
         /\ payloadF' = IF report THEN payloadF + 1 ELSE payloadF
         /\ failures' = CountFailure(failures, report)
         /\ txLog' = [sent |-> payloadF, ok |-> report]
         /\ streak' = IF report THEN 0 ELSE streak + 1
    /\ ops' = ops \cup {"write"}
    /\ UNCHANGED <<progVars, argVars, ioVars, radio, payload, timeVars, fifoVars,
                   microVars>>

\* "ack" 246, "gs" 344: the loop is left
MasterLeave ==
    /\ prog \in Linux
    /\ pc = "master"
    /\ ~(failures < MaxFailures)
    /\ Return(<<"leaveTX">>)
    /\ UNCHANGED <<typed, prog, caller, handler, argVars, radioVars, dataVars, txVars,
                   timeVars, fifoVars, microVars>>

(***************************************************************************)
(* slave(): the RX role of the Linux examples.                             *)
(***************************************************************************)
TimeoutSecs == 6

\* time(nullptr): whole seconds
Time(t) == t \div TicksPerSec

\* the negation of the loop condition time(nullptr) - startTimer < 6
SlaveTimedOut == ~(Time(now) - startTimer < TimeoutSecs)

\* radio.writeAckPayload(1, &payload, sizeof(payload))
WriteAckPayload(fifo, counter, from) == Push(fifo, [counter |-> counter, from |-> from])

\* "ack" 254-260, "gs" 355-357; the clock is counted from the start of the
\* second in which slave() is entered
SlaveEnter ==
    /\ prog \in Linux
    /\ pc = "callSlave"
    /\ payload' = IF prog = "ack" THEN [payload EXCEPT !.message = "World "] ELSE payload
    /\ ackFifo' = IF prog = "ack"
                  THEN WriteAckPayload(ackFifo, payload.counter, payloadFrom)
                  ELSE ackFifo
    /\ radio' = StartListening(radio)
    /\ ops' = ops \cup (IF prog = "ack" THEN {"writeAckPayload"} ELSE {})
                  \cup {"startListening"}
    /\ \E phase \in 0..(TicksPerSec - 1) :
         /\ now' = phase
         /\ quietSince' = phase
         /\ startTimer' = Time(phase)
    /\ entryCounter' = payload.counter
    /\ pc' = "slave"
    /\ UNCHANGED <<prog, caller, exitCode, handler, argVars, ioVars, payloadF,
                   txVars, rxFifo, nRx, rxHist, lastAck, payloadFrom, exchange,
                   microVars>>

\* "ack" 261-281, "gs" 358-368: one pass of the loop
SlaveIter ==
    /\ prog \in Linux
    /\ pc = "slave"
    /\ ~SlaveTimedOut
    /\ IF rxFifo # <<>>
       THEN LET received == Head(rxFifo) IN
            /\ rxFifo' = Tail(rxFifo)
            /\ startTimer' = Time(now)
            /\ quietSince' = now
            /\ ops' = ops \cup {"read"} \cup (IF prog = "ack" THEN {"writeAckPayload"} ELSE {})
            /\ IF prog = "ack"
               THEN /\ payload' = [payload EXCEPT !.counter = NextCounter(received.counter)]
                    /\ payloadFrom' = received.n
                    /\ ackFifo' = WriteAckPayload(ackFifo, NextCounter(received.counter),
                                                  received.n)
                    /\ UNCHANGED payloadF
               ELSE /\ payloadF' = received.counter
                    /\ UNCHANGED <<payload, payloadFrom, ackFifo>>
       ELSE UNCHANGED <<rxFifo, startTimer, quietSince, ops, payload, payloadF,
                        payloadFrom, ackFifo>>
    /\ UNCHANGED <<progVars, argVars, ioVars, radio, txVars, now, nRx, rxHist, entryCounter,
                   lastAck, exchange, microVars>>

\* "ack" 282-283, "gs" 369-370: the loop is left
SlaveLeave ==
    /\ prog \in Linux
    /\ pc = "slave"
    /\ SlaveTimedOut
    /\ radio' = StopListening(radio)
    /\ ops' = ops \cup {"stopListening"}
    /\ ackFifo' = <<>>
    /\ Return(<<"leaveRX">>)
    /\ UNCHANGED typed
    /\ now' = 0
    /\ startTimer' = 0
    /\ quietSince' = 0
    /\ UNCHANGED <<prog, caller, handler, argVars, dataVars, txVars, rxFifo, nRx,
                   rxHist, entryCounter, lastAck, payloadFrom, exchange, microVars>>

\* wall-clock time passes while the node is in slave()
Tick ==
    /\ pc = "slave"
    /\ now < MaxTick
    /\ now' = now + 1
    /\ UNCHANGED <<progVars, argVars, ioVars, radioVars, dataVars, txVars,
                   startTimer, quietSince, fifoVars, microVars>>

(***************************************************************************)
(* "man": the Arduino sketch with manually transmitted acknowledgements.   *)
(***************************************************************************)
\* the characters the serial line may hold: T t R r X
SerialKeys == {84, 116, 82, 114, 88}

\* toupper()
ToUpper(c) == IF c \in 97..122 THEN c - 32 ELSE c

\* "man" 48-90
Setup ==
    /\ prog = "man"
    /\ pc = "start"
    /\ \E hwOk \in BOOLEAN :
         IF hwOk
         THEN LET r == [RadioBegin(radio) EXCEPT !.paLow = TRUE] IN
              /\ Say(<<"name">>)
              /\ IF role
                 THEN /\ payload' = [payload EXCEPT !.message = "Hello "]
                      /\ radio' = OpenWritingPipe(StopListening(r), Address(FALSE))
                      /\ ops' = ops \cup {"setPALevel", "stopListening", "openWritingPipe"}
                 ELSE /\ payload' = [payload EXCEPT !.message = "World "]
                      /\ radio' = StartListening(OpenReadingPipe(r, 1, Address(FALSE)))
                      /\ ops' = ops \cup {"setPALevel", "openReadingPipe", "startListening"}
              /\ pc' = "loop"
         ELSE /\ Say(<<"hwfail">>)
              /\ pc' = "hold"
              /\ UNCHANGED <<radio, ops, payload>>
    /\ UNCHANGED <<prog, caller, exitCode, handler, input, typed, argVars, payloadF,
                   txVars, timeVars, fifoVars, microVars>>

\* "man" 61: while (1) {}
Hold ==
    /\ prog = "man"
    /\ pc = "hold"
    /\ UNCHANGED vars

\* a variant that increments the response's counter, as "ack" 232 does
AdoptPlusOne(p, received) == [p EXCEPT !.counter = (received.counter + 1) % 256]

\* "man" 130: payload.counter = received.counter
Adopt(p, received) == [p EXCEPT !.counter = received.counter]

\* "man" 147: payload.counter = received.counter + 1
Respond(p, received) == [p EXCEPT !.counter = NextCounter(received.counter)]

\* "man" 104-113: the radio after the TX node's pass
LoopTxRadio(r, report) ==
    IF report
    THEN OpenWritingPipe(
           StopListening(StartListening(OpenReadingPipe(r, 1, Address(TRUE)))),
           Address(FALSE))
    ELSE r

\* a variant that does not go back to RX mode after the response
LoopRxRadioStaysTx(r, got) ==
    IF got
    THEN OpenReadingPipe(OpenWritingPipe(StopListening(r), Address(TRUE)),
                         1, Address(FALSE))
    ELSE r

\* "man" 150-154: the radio after the RX node's pass
LoopRxRadio(r, got) ==
    IF got
    THEN StartListening(
           OpenReadingPipe(OpenWritingPipe(StopListening(r), Address(TRUE)),
                           1, Address(FALSE)))
    ELSE r

\* "man" 92-198: one pass of loop().  report is what write() reports, resp
\* whether a response arrives within 200 ms (the other node runs this sketch
\* in the RX role: its response carries the counter received plus one, line
\* 147), key the character waiting on the serial line (-1: none)
Loop ==
    /\ prog = "man"
    /\ pc = "loop"
    /\ \E report \in BOOLEAN, resp \in BOOLEAN, key \in SerialKeys \cup {-1} :
         LET fifo == IF report /\ resp
                     THEN Push(rxFifo, [counter |-> NextCounter(payload.counter), n |-> 0])
                     ELSE rxFifo
             r1 == IF role THEN LoopTxRadio(radio, report)
                   ELSE LoopRxRadio(radio, rxFifo # <<>>)
             toTx == ToUpper(key) = 84 /\ ~role
             toRx == ToUpper(key) = 82 /\ role
             p1 == IF role
                   THEN IF report /\ fifo # <<>>
                        THEN Adopt(payload, Head(fifo))
                        ELSE payload
                   ELSE IF rxFifo # <<>>
                        THEN Respond(payload, Head(rxFifo))
                        ELSE payload
             read == IF role
                     THEN IF report /\ fifo # <<>> THEN <<Head(fifo)>> ELSE <<>>
                     ELSE IF rxFifo # <<>> THEN <<Head(rxFifo)>> ELSE <<>>
         IN  /\ (role /\ report /\ resp) => NextCounter(payload.counter) <= MaxResponse
             /\ exchange' = IF read = <<>> THEN NoExchange
                            ELSE [kind |-> IF role THEN "adopted" ELSE "response",
                                  n |-> read[1].n, got |-> read[1].counter,
                                  counter |-> p1.counter]
             /\ IF role
                THEN /\ txLog' = [sent |-> payload.counter, ok |-> report]
                     /\ rxFifo' = IF report /\ fifo # <<>> THEN Tail(fifo) ELSE fifo
                ELSE /\ txLog' = NoTx
                     /\ rxFifo' = IF rxFifo # <<>> THEN Tail(rxFifo) ELSE rxFifo
             /\ ops' = ops \cup (IF role \/ rxFifo # <<>> THEN {"write"} ELSE {})
             /\ IF toTx
                THEN /\ role' = TRUE
                     /\ payload' = [p1 EXCEPT !.message = "Hello "]
                     /\ radio' = OpenWritingPipe(StopListening(r1), Address(FALSE))
                     /\ Say(<<"toTX">>)
                ELSE IF toRx
                THEN /\ role' = FALSE
                     /\ payload' = [p1 EXCEPT !.message = "World "]
                     /\ radio' = StartListening(OpenReadingPipe(r1, 1, Address(FALSE)))
                     /\ Say(<<"toRX">>)
                ELSE /\ role' = role
                     /\ payload' = p1
                     /\ radio' = r1
                     /\ UNCHANGED <<shown, out>>
    /\ UNCHANGED <<progVars, foundArgNode, foundArgRole, radioNumber, cli, input, typed,
                   payloadF, failures, streak, timeVars, ackFifo, nRx, rxHist, entryCounter,
                   lastAck, payloadFrom, microVars>>

(***************************************************************************)
(* The whole of the three programs.                                        *)
(***************************************************************************)
Next ==
    \/ MainBegin
    \/ MainArgs
    \/ MainAskNode
    \/ MainConfig
    \/ MainSigaction
    \/ MainDispatch
    \/ SetRole
    \/ Interrupt
    \/ MasterEnter
    \/ MasterIterAck
    \/ MasterIterGs
    \/ MasterLeave
    \/ SlaveEnter
    \/ SlaveIter
    \/ SlaveLeave
    \/ Tick
    \/ PacketArrives
    \/ Setup
    \/ Hold
    \/ Loop

Spec == Init /\ [][Next]_vars

(***************************************************************************)
(* The programs from their start to the first menu, role or loop(), with   *)
(* the history of the command line.                                        *)
(***************************************************************************)
NextStartup ==
    \/ MainBegin
    \/ MainArgsCli
    \/ MainAskNode
    \/ MainConfig
    \/ MainSigaction
    \/ MainDispatch
    \/ Setup
    \/ Hold
    \/ Interrupt

SpecStartup == Init /\ [][NextStartup]_vars

(***************************************************************************)
(* The programs while no other node transmits to this one.                 *)
(***************************************************************************)
NextRoles ==
    \/ MainBegin
    \/ MainArgs
    \/ MainAskNode
    \/ MainConfig
    \/ MainSigaction
    \/ MainDispatch
    \/ SetRole
    \/ Interrupt
    \/ MasterEnter
    \/ MasterIterAck
    \/ MasterIterGs
    \/ MasterLeave
    \/ SlaveEnter
    \/ SlaveIter
    \/ SlaveLeave
    \/ Tick
    \/ Setup
    \/ Hold
    \/ Loop

SpecRoles == Init /\ [][NextRoles]_vars

(***************************************************************************)
(* The RX role of the Linux examples while the other node transmits: from  *)
(* the first call of slave(), by main() for "-r 0" or by the role menu     *)
(* for "R", there either first or after a stay in master() that ended with *)
(* payload.counter = 1.                                                    *)
(***************************************************************************)
InitRx ==
    \E afterTx \in BOOLEAN :
    /\ prog \in Linux
    /\ pc = "callSlave"
    /\ caller \in IF prog = "ack" THEN {"main", "setRole"} ELSE {"setRole"}
    /\ afterTx => prog = "ack" /\ caller = "setRole"
    /\ exitCode = "none"
    /\ radioNumber \in IF prog = "ack" THEN BOOLEAN ELSE {TRUE}
    /\ radio = IF prog = "ack" THEN ConfigAck(RadioBegin(RadioOff), radioNumber)
               ELSE ConfigGs(RadioBegin(RadioOff))
    /\ ops = ConfigOps(prog) \cup (IF afterTx THEN {"stopListening", "write"} ELSE {})
    /\ handler = (prog = "ack")
    /\ foundArgNode = FALSE
    /\ foundArgRole = (caller = "main")
    /\ role = FALSE
    /\ cli = NoCli
    /\ shown = IF prog = "gs" THEN {"name", "menu"}
               ELSE IF caller = "main" THEN {"name", "askNode"}
               ELSE {"name", "askNode", "menu"}
    /\ out = IF afterTx THEN <<"leaveTX", "menu">>
             ELSE IF prog = "gs" THEN <<"name", "menu">>
             ELSE IF caller = "main" THEN <<"name", "askNode">>
             ELSE <<"menu">>
    /\ input = IF caller = "setRole" THEN <<82>> ELSE <<>>
    /\ typed = IF caller = "setRole" THEN <<82>> ELSE <<>>
    /\ payload = IF afterTx THEN [message |-> "Hello ", counter |-> 1]
                 ELSE [message |-> "", counter |-> 0]
    /\ payloadF = 0
    /\ failures = IF afterTx THEN MaxFailures ELSE 0
    /\ txLog = IF afterTx THEN [sent |-> 1, ok |-> FALSE] ELSE NoTx
    /\ streak = IF afterTx THEN 1 ELSE 0
    /\ now = 0
    /\ startTimer = 0
    /\ quietSince = 0
    /\ rxFifo = <<>>
    /\ ackFifo = <<>>
    /\ nRx = 0
    /\ rxHist = <<>>
    /\ entryCounter = 0
    /\ lastAck = NoAck
    /\ payloadFrom = 0
    /\ exchange = NoExchange
    /\ InitMicros

NextRx ==
    \/ SlaveEnter
    \/ SlaveIter
    \/ SlaveLeave
    \/ Tick
    \/ PacketArrives
    \/ Interrupt

SpecRx == InitRx /\ [][NextRx]_vars

(***************************************************************************)
(* "man" while the other node transmits and answers.                       *)
(***************************************************************************)
InitMan ==
    /\ prog = "man"
    /\ InitProgram
    /\ InitMicros

NextMan ==
    \/ Setup
    \/ Hold
    \/ Loop
    \/ PacketArrives

SpecMan == InitMan /\ [][NextMan]_vars

(***************************************************************************)
(* getMicros() and the timer it reads ("ack" 211-213, 290-299; "gs"        *)
(* 324-326, 377-386).                                                      *)
(***************************************************************************)
\* the tv_nsec values the clock is read at
Nsecs == {0, 999, 1000, 500000000, 999999000, 999999999}

Instants == [sec : 0..MaxClockSecs, nsec : Nsecs]

Before(s, t) == s.sec < t.sec \/ (s.sec = t.sec /\ s.nsec < t.nsec)

\* A uint32_t is kept as its two 16-bit halves <<high, low>>.
Half == 65536

\* conversion of an int or a long of magnitude below 2^31 to uint32_t
U32(x) ==
    IF x >= 0 THEN <<x \div Half, x % Half>>
    ELSE LET y == (-x) - 1
         IN  <<(Half - 1) - (y \div Half), (Half - 1) - (y % Half)>>

\* uint32_t + uint32_t
U32Add(a, b) ==
    LET low == a[2] + b[2]
    IN  <<(a[1] + b[1] + (low \div Half)) % Half, low % Half>>

\* uint32_t * k, for an int k below 2^15
U32Mul(a, k) ==
    LET low == a[2] * k
    IN  <<(a[1] * k + (low \div Half)) % Half, low % Half>>

\* integer division of C++: towards zero
CDiv(x, d) == IF x >= 0 THEN x \div d ELSE -((-x) \div d)

\* "ack" 295-298: the value getMicros() returns with endTimer = e
GetMicrosValue(s, e) ==
    LET seconds == U32(e.sec - s.sec)
        useconds == U32(CDiv(e.nsec - s.nsec, 1000))
    IN  U32Add(U32Mul(seconds, 1000), useconds)

\* CLOCK_MONOTONIC_RAW moves on
ClockAdvance ==
    /\ \E t \in Instants : Before(clock, t) /\ clock' = t
    /\ UNCHANGED <<progVars, argVars, ioVars, radioVars, dataVars, txVars,
                   timeVars, fifoVars, startTs, endTs, elapsed>>

\* "ack" 211: clock_gettime(CLOCK_MONOTONIC_RAW, &startTimer)
StartClock ==
    /\ startTs' = clock
    /\ elapsed' = <<>>
    /\ UNCHANGED <<progVars, argVars, ioVars, radioVars, dataVars, txVars,
                   timeVars, fifoVars, clock, endTs>>

\* "ack" 213, 290-299: uint32_t timerEllapsed = getMicros()
GetMicros ==
    /\ endTs' = clock
    /\ elapsed' = GetMicrosValue(startTs, clock)
    /\ UNCHANGED <<progVars, argVars, ioVars, radioVars, dataVars, txVars,
                   timeVars, fifoVars, clock, startTs>>

InitClock ==
    /\ prog \in Linux
    /\ InitProgram
    /\ clock \in Instants
    /\ startTs = clock
    /\ endTs = [sec |-> 0, nsec |-> 0]
    /\ elapsed = <<>>

NextMicros ==
    \/ ClockAdvance
    \/ StartClock
    \/ GetMicros

SpecMicros == InitClock /\ [][NextMicros]_vars

(***************************************************************************)
(*                              The claims                                 *)
(***************************************************************************)
\* the step in which master() prints its last line and returns
LeftTx ==
    /\ pc = "master" /\ pc' # "master"
    /\ exitCode' # "SIGINT" /\ out' # <<"interrupt">>

\* C1, as claimed: the TX role is left only after 6 failed transmissions in
\* a row, with no successful transmission between them.
C1_SixInARow ==
    (prog \in Linux /\ pc \in {"menu", "exited"} /\ out # <<>> /\ out[1] = "leaveTX")
        => streak = 6

\* C1, amended: the TX role is left exactly when 6 transmissions have failed
\* since master() was entered, whether or not successful ones came between
\* them: the count starts at 0, every failed write() adds one, a successful
\* one leaves it, the loop goes on below 6 and is left at 6.
C1_SixInTotal ==
    /\ [](prog \in Linux /\ pc = "master" => failures <= 6 /\ streak <= failures)
    /\ [][pc = "callMaster" /\ pc' = "master" => failures' = 0]_vars
    /\ [][pc = "master" /\ pc' = "master"
            => /\ failures < 6
               /\ failures' = failures + (IF txLog'.ok THEN 0 ELSE 1)]_vars
    /\ [][LeftTx => failures = 6 /\ out'[1] = "leaveTX"]_vars

\* the TX role has been left although a transmission succeeded between the failures
C1_Witness ==
    /\ pc = "menu" /\ out # <<>> /\ out[1] = "leaveTX"
    /\ failures = 6 /\ streak < 6

\* C2: in "ack" a keyboard interrupt at any time quits the program with the
\* radio powered down.
C2_PowerDownOnInterrupt ==
    (prog = "ack" /\ pc = "exited" /\ (exitCode = "SIGINT" \/ out = <<"interrupt">>))
        => ~radio.powered

\* C3: every malformed command line of "ack" ends in the usage text and the
\* exit, with no pipe opened and no role entered.
C3_MalformedRejected ==
    (prog = "ack" /\ cli.malformed)
        => /\ pc = "exited" /\ exitCode = "0" /\ "help" \in shown
           /\ radio.txPipe = NoPipe /\ radio.rxPipe1 = NoPipe

\* C4, as claimed: in every example a failed hardware check ends the program.
C4_Exits == "hwfail" \in shown => pc = "exited"

\* C4, amended: after a failed hardware check the message is printed and no
\* radio operation follows and no role is entered; the Linux examples exit
\* (with code 0), the Arduino sketch holds in an endless loop and never exits.
C4_NoRadioUse ==
    "hwfail" \in shown
        => /\ ops = {} /\ radio = RadioOff
           /\ prog \in Linux => pc = "exited" /\ exitCode = "0"
           /\ prog = "man" => pc = "hold" /\ exitCode = "none"

\* the Arduino sketch holds after the failed hardware check
C4_Witness == prog = "man" /\ pc = "hold" /\ "hwfail" \in shown

\* C5: with a well-formed command line, -n/--node gives the radio number
\* and replaces its prompt, -r/--role gives the role and replaces the role
\* menu; without the flag the prompt (the menu) is used.  Of a flag given
\* twice the last one counts.
C5_FlagsReplacePrompts ==
    (prog = "ack" /\ ~cli.malformed)
        => /\ "help" \notin shown
           /\ "name" \in shown =>
                /\ cli.node # -1 => "askNode" \notin shown /\ radioNumber = (cli.node = 49)
                /\ cli.node = -1 =>
                     /\ "askNode" \in shown
                     /\ pc \in {"config", "sigaction", "dispatch", "menu",
                                "callMaster", "callSlave"}
                          => radioNumber = (FirstChar(typed) = 49)
                /\ cli.role # -1 =>
                     /\ "menu" \notin shown /\ pc # "menu"
                     /\ pc = "callMaster" => cli.role = 49
                     /\ pc = "callSlave" => cli.role = 48
                /\ cli.role = -1 => pc \notin {"callMaster", "callSlave"}
                /\ pc = "menu" => "menu" \in shown

\* both flags are given and the TX role is entered
C5_Witness ==
    /\ prog = "ack" /\ ~cli.malformed
    /\ cli.node = 48 /\ cli.role = 49 /\ pc = "callMaster"

\* the step in which slave() prints its last line and returns
LeftRx ==
    /\ pc = "slave" /\ pc' # "slave"
    /\ exitCode' # "SIGINT" /\ out' # <<"interrupt">>

\* C6: the RX role is left exactly when 6 seconds of wall-clock time have
\* passed with no payload received: it is never left sooner than 6 seconds
\* after the last payload was read (or slave() was entered).
C6_SixSeconds == [][LeftRx => now - quietSince >= 6 * TicksPerSec]_vars

\* C7: after each write() of the TX node that reports success, the counter
\* of the next outgoing payload is one more (modulo 256) than the one sent.
C7_CounterIncremented ==
    (/\ \/ prog = "ack" /\ pc = "master"
        \/ prog = "man" /\ pc = "loop" /\ role
     /\ txLog.ok)
        => payload.counter = (txLog.sent + 1) % 256

\* the step in which setRole() reads a line
MenuStep ==
    /\ prog \in Linux /\ pc = "menu"
    /\ exitCode' # "SIGINT" /\ out' # <<"interrupt">>

\* C8: the role menu dispatches on the first character of the line alone:
\* T/t runs the transmitter loop, R/r the receiver loop, Q/q leaves the
\* menu, any other is reported as invalid and changes no radio or payload
\* state, an empty line does nothing; after a loop returns the menu is shown
\* again, and setRole() returns only for Q/q.
C8_RoleMenu ==
    /\ [][MenuStep =>
            LET c == IF typed' = <<>> THEN 0 ELSE typed'[1] IN
            /\ pc' = "callMaster" <=> c \in {84, 116}
            /\ pc' = "callSlave" <=> c \in {82, 114}
            /\ pc' = "exited" <=> c \in {81, 113}
            /\ pc' = "menu" <=> c \notin {84, 116, 82, 114, 81, 113}
            /\ pc' = "exited" => exitCode' = "0"
            /\ c \notin {0, 84, 116, 82, 114, 81, 113} => out' = <<"invalid", "menu">>
            /\ c \in {84, 116, 82, 114, 81, 113} => out' = out
            /\ c = 0 => out' = <<"menu">>
            /\ UNCHANGED <<radioVars, dataVars, fifoVars>>]_vars
    /\ [][(prog \in Linux /\ caller = "setRole" /\ (LeftTx \/ LeftRx))
            => pc' = "menu" /\ out'[Len(out')] = "menu" /\ input' = <<>>]_vars
    /\ [][(prog \in Linux /\ caller = "setRole" /\ pc # "exited" /\ pc' = "exited"
           /\ exitCode' = "0" /\ out' # <<"interrupt">>)
            => pc = "menu" /\ typed' # <<>> /\ typed'[1] \in {81, 113}]_vars

\* "tQ" was typed and the transmitter loop runs
C8_Witness == prog \in Linux /\ pc = "master" /\ typed = <<116, 81>> /\ input = typed

\* C9: getMicros() returns the time between startTimer and its call in
\* microseconds, truncated to 32 bits.
C9_ElapsedMicros ==
    elapsed # <<>>
        => elapsed = U32((endTs.sec - startTs.sec) * 1000000
                         + ((endTs.nsec - startTs.nsec) \div 1000))

C11_AddressPair ==
    /\ [](prog = "ack" /\ "openWritingPipe" \in ops =>
            LET other == ConfigAck(RadioBegin(RadioOff), ~radioNumber) IN
            /\ radio.txPipe = (IF radioNumber THEN "2Node" ELSE "1Node")
            /\ radio.rxPipe1 = (IF radioNumber THEN "1Node" ELSE "2Node")
            /\ radio.txPipe # radio.rxPipe1
            /\ radio.txPipe = other.rxPipe1
            /\ radio.rxPipe1 = other.txPipe)
    /\ [](prog = "ack" /\ pc \in {"sigaction", "dispatch", "menu", "callMaster",
                                  "callSlave", "master", "slave"}
            => "openWritingPipe" \in ops /\ "openReadingPipe" \in ops)
    /\ [][prog = "ack" /\ pc = "askNode" /\ pc' = "config"
            => radioNumber' = (typed' # <<>> /\ typed'[1] = 49)]_vars
    /\ [][prog = "ack" /\ "openWritingPipe" \in ops
            => radioNumber' = radioNumber /\ radio'.txPipe = radio.txPipe
               /\ radio'.rxPipe1 = radio.rxPipe1]_vars

\* radio number 0 was typed at the prompt and the node receives
C11_Witness ==
    /\ prog = "ack" /\ pc = "slave" /\ caller = "main"
    /\ "askNode" \in shown /\ typed = <<48>> /\ ~radioNumber
    /\ radio.txPipe = "1Node" /\ radio.rxPipe1 = "2Node"

\* C12: every run of a Linux example that has terminated, by whatever
\* cause (hardware not responding, usage text, 'Q' at the menu, return of
\* the role of the -r flag, keyboard interrupt), has exit code 0.
C12_ExitCodeZero == (prog \in Linux /\ pc = "exited") => exitCode = "0"

\* C13: in "man" the response the RX node transmits answers the payload it
\* has just read: its counter is the counter of that payload plus one modulo
\* 256, never one derived from an earlier payload; and the TX node that
\* reads a response takes the response's counter unchanged as the counter of
\* its next outgoing payload.
C13_ResponseUpToDate ==
    /\ [](prog = "man" /\ exchange.kind = "response" =>
            /\ exchange.n \in 0..Len(rxHist)
            /\ exchange.n > 0 => exchange.got = rxHist[exchange.n]
            /\ exchange.counter = (exchange.got + 1) % 256
            /\ payload.counter = exchange.counter)
    /\ [](prog = "man" /\ exchange.kind = "adopted" =>
            /\ txLog.ok
            /\ exchange.counter = exchange.got
            /\ payload.counter = exchange.got)
    /\ [][prog = "man" /\ pc = "loop" /\ ~role /\ rxFifo # <<>> /\ nRx' = nRx =>
            /\ exchange'.kind = "response"
            /\ exchange'.n = Head(rxFifo).n
            /\ exchange'.got = Head(rxFifo).counter
            /\ payload'.counter = (Head(rxFifo).counter + 1) % 256
            /\ rxFifo' = Tail(rxFifo)
            /\ "write" \in ops']_vars
    /\ [][prog = "man" /\ exchange'.kind = "response" /\ exchange' # exchange
            => ~role /\ rxFifo # <<>>]_vars

\* the RX node answers the second of two payloads, whose counter is 255, with 0
C13_Witness ==
    /\ prog = "man" /\ exchange.kind = "response"
    /\ exchange.n = 2 /\ exchange.got = 255 /\ exchange.counter = 0

\* C14: in "man", at the start of every pass of loop() the radio agrees
\* with the role: in the TX role it does not listen and writes to "1Node"
\* (address[0]), in the RX role it listens and reads "1Node" on pipe 1; the
\* node enters loop() in the RX role.
C14_RoleAgreesWithRadio ==
    /\ [](prog = "man" /\ pc = "loop" =>
            /\ radio.powered
            /\ role => ~radio.listening /\ radio.txPipe = "1Node"
            /\ ~role => radio.listening /\ radio.rxPipe1 = "1Node")
    /\ [][prog = "man" /\ pc = "start" /\ pc' = "loop"
            => ~role' /\ radio'.listening /\ radio'.rxPipe1 = "1Node"]_vars

\* back in the RX role after a response was sent and a transmission answered
C14_Witness ==
    /\ prog = "man" /\ pc = "loop" /\ ~role
    /\ radio.txPipe = "2Node" /\ radio.rxPipe1 = "1Node"
    /\ exchange.kind = "response" /\ txLog = NoTx /\ out = <<"toRX">>

====
